---- MODULE Spec2Model ----
(***************************************************************************)
(* Retrieval-and-grounding pipeline of src/app.py: the /chat handler, the  *)
(* three-tier search_similar_chunks and generate_answer, for NumReq        *)
(* requests whose steps interleave freely.                                  *)
(*                                                                         *)
(* Strings are sequences of one-character strings.  Similarities and       *)
(* distances are integers in units of 1/Unit (Unit = 10000), so 0.5 is     *)
(* 5000 and three decimals are multiples of 10.                             *)
(***************************************************************************)
EXTENDS Integers, Sequences, FiniteSets, TLC

\* ------------------------------------------------------------------ bounds
NumReq == 2
MaxCorpus == 8

\* ------------------------------------------------------- program constants
DefaultTopK == 5
TruncLen == 200
Unit == 10000
Sentinel == 5000

Requests == 1..NumReq

Ellipsis == <<".", ".", ".">>

\* An answer string: its fixed text and, when it embeds one, the error it
\* describes.
NoAnswer == [text |-> "none", error |-> "none"]

CannedAnswer == [text |-> "I don't have enough information", error |-> "none"]

\* response.choices[0].message.content.strip()
CompletionAnswer == [text |-> "completion", error |-> "none"]

\* f"Sorry, I encountered an error generating the answer: {e}"
ErrorAnswer(e) ==
    [text |-> "Sorry, I encountered an error generating the answer", error |-> e]

\* What a failing completion call raises.
CompletionErrors == {"timeout", "rate limit"}

\* --------------------------------------------------------------- the store
\* Filler characters of a passage text (none of them occurs in a query).
Fill(n) == [k \in 1..n |-> IF k % 2 = 0 THEN "x" ELSE "y"]

PoolHeads ==
    << <<"A", "b">>, <<>>, <<"x", "a", "B">>, <<>>,
       <<"A", "B">>, <<"a", "b">>, <<"b", "a", "b">>, <<"a", "b", "a">> >>
PoolLens == <<201, 0, 3, 200, 250, 2, 199, 5>>
PoolAngles == <<1, 4, 0, 2, 1, 7, 3, 5>>

\* Row i of items_xbox: a text and a stored embedding, a unit vector given by
\* its direction in eighths of a turn.
Passage(i) ==
    LET j == ((i - 1) % 8) + 1
    IN  [text |-> PoolHeads[j] \o Fill(PoolLens[j] - Len(PoolHeads[j])),
         embedding |-> <<PoolAngles[j]>>]

Corpora == {[i \in 1..n |-> Passage(i)] : n \in 0..MaxCorpus}

Queries == {<<"a", "b">>, <<"z">>, <<"a", "_">>}

\* model.encode([query])[0].tolist(): deterministic, text -> vector.
Encode(q) == <<(3 * Len(q) + (IF q # <<>> /\ q[1] = "z" THEN 1 ELSE 0)) % 8>>

\* cosine of k eighths of a turn, in 1/Unit.
Cos8(k) ==
    LET m == k % 8
    IN  CASE m = 0 -> 10000
          [] m \in {1, 7} -> 7071
          [] m \in {2, 6} -> 0
          [] m \in {3, 5} -> -7071
          [] OTHER -> -10000

\* pgvector's  embedding <=> q : cosine distance.
CosineDistance(e, q) == Unit - Cos8(e[1] - q[1] + 8)

\* 1 - (embedding <=> q)
Similarity(e, q) == Unit - CosineDistance(e, q)

Min(a, b) == IF a < b THEN a ELSE b

\* ---------------------------------------------------------- the SQL tiers
\* ORDER BY key(i): the store leaves the order of equal keys open; tb is the
\* order it happens to use ("asc": physical order, "desc": the reverse).
TieBreaks == {"asc", "desc"}

\* The rows of corp by ascending distance to q: row i stands at the place
\* after the rows that come before it.
OrderBy(corp, q, tb) ==
    LET d(i) == CosineDistance(corp[i].embedding, q)
        before(i, j) == \/ d(i) < d(j)
                        \/ d(i) = d(j) /\ (IF tb = "asc" THEN i < j ELSE i > j)
        place(i) == 1 + Cardinality({j \in DOMAIN corp : before(j, i)})
    IN  [n \in DOMAIN corp |-> CHOOSE i \in DOMAIN corp : place(i) = n]

\* Limit without the LIMIT clause.
Limit_NoCap(rows, k) == rows

\* LIMIT k
Limit(rows, k) == SubSeq(rows, 1, Min(k, Len(rows)))

\* SELECT text, 1 - (embedding <=> q) AS similarity FROM items_xbox
\* ORDER BY embedding <=> q LIMIT k           (tiers 1 and 2 return the same rows)
VectorQuery(corp, q, k, tb) ==
    LET order == Limit(OrderBy(corp, q, tb), k)
    IN  [n \in DOMAIN order |->
            [text |-> corp[order[n]].text,
             similarity |-> Similarity(corp[order[n]].embedding, q)]]

Lower(c) == CASE c = "A" -> "a" [] c = "B" -> "b" [] OTHER -> c

\* s ILIKE p from positions j of s and i of p: "%" matches any run of
\* characters, "_" any one character, anything else itself without case.
RECURSIVE LikeAt(_, _, _, _)
LikeAt(p, i, s, j) ==
    IF i > Len(p) THEN j > Len(s)
    ELSE IF p[i] = "%"
         THEN \/ i = Len(p)
              \/ \E n \in j..(Len(s) + 1) : LikeAt(p, i + 1, s, n)
         ELSE /\ j <= Len(s)
              /\ (p[i] = "_" \/ Lower(p[i]) = Lower(s[j]))
              /\ LikeAt(p, i + 1, s, j + 1)

ILike(s, p) == LikeAt(p, 1, s, 1)

\* f'%{query}%'
LikePattern(query) == <<"%">> \o query \o <<"%">>

RECURSIVE SelectWhere(_, _, _)
SelectWhere(order, corp, pat) ==
    IF order = <<>> THEN <<>>
    ELSE (IF ILike(corp[Head(order)].text, pat) THEN <<Head(order)>> ELSE <<>>)
         \o SelectWhere(Tail(order), corp, pat)

\* SELECT text, 0.5 AS similarity FROM items_xbox WHERE text ILIKE pat LIMIT k
TextQuery(corp, query, k, tb) ==
    LET n == Len(corp)
        scan == [i \in 1..n |-> IF tb = "asc" THEN i ELSE n + 1 - i]
        hit == Limit(SelectWhere(scan, corp, LikePattern(query)), k)
    IN  [m \in DOMAIN hit |-> [text |-> corp[hit[m]].text, similarity |-> Sentinel]]

\* --------------------------------------------------- composing the answer
\* "\n\n".join(f"Source {i+1}: {chunk['text']}" ...)
Context(chunks) == [i \in DOMAIN chunks |-> [label |-> i, text |-> chunks[i].text]]

Prompt(query, chunks) == [context |-> Context(chunks), question |-> query]

\* No prompt has been built.
NoPrompt == [context |-> <<>>, question |-> <<>>]

\* Truncate with >= for >: a text of exactly 200 characters gets the marker.
Truncate_OffByOne(text) ==
    IF Len(text) >= TruncLen THEN SubSeq(text, 1, TruncLen) \o Ellipsis ELSE text

\* chunk["text"][:200] + "..." if len(chunk["text"]) > 200 else chunk["text"]
Truncate(text) ==
    IF Len(text) > TruncLen THEN SubSeq(text, 1, TruncLen) \o Ellipsis ELSE text

\* round(x, 3): to the nearest multiple of Unit/1000, a tie to the even one.
Round3(x) ==
    LET r == x % 10
        lo == x - r
    IN  IF r < 5 THEN lo
        ELSE IF r > 5 THEN lo + 10
        ELSE IF (lo \div 10) % 2 = 0 THEN lo ELSE lo + 10

FormatSources(chunks) ==
    [i \in DOMAIN chunks |->
        [content |-> Truncate(chunks[i].text),
         similarity |-> Round3(chunks[i].similarity)]]

\* ------------------------------------------------------------------ state
VARIABLES
    corpus,            \* rows of items_xbox (never written)
    pc,                \* where each request's handler stands
    message,           \* request.message
    query_embedding,   \* the encoded query, <<>> before encode
    conn,              \* the request's connection: "none", "open", "closed"
    txn,               \* its transaction: "none", "active", "aborted"
    attempts,          \* the tiers executed, in order, with arguments and outcome
    relevant_chunks,   \* what search_similar_chunks returned
    exc,               \* the exception in flight, "none" if none
    prompt,            \* the prompt handed to the completion service
    completion,        \* how the completion call ended: "none", "ok", "raised"
    answer,            \* the answer string
    sources,           \* ChatResponse.sources
    status,            \* HTTP status, 0 while running
    detail,            \* detail of the HTTP 500 body
    encodeCalls,       \* calls of model.encode
    completionCalls,   \* calls of groq_client.chat.completions.create
    responses          \* responses returned for the request

vars == <<corpus, pc, message, query_embedding, conn, txn, attempts,
          relevant_chunks, exc, prompt, completion, answer, sources, status,
          detail, encodeCalls, completionCalls, responses>>

\* An exception: its class, its message and the error the message quotes.
NoExc == [type |-> "none", msg |-> "none", cause |-> "none"]

Init ==
    /\ corpus \in Corpora
    /\ pc = [r \in Requests |-> "idle"]
    /\ message = [r \in Requests |-> <<>>]
    /\ query_embedding = [r \in Requests |-> <<>>]
    /\ conn = [r \in Requests |-> "none"]
    /\ txn = [r \in Requests |-> "none"]
    /\ attempts = [r \in Requests |-> <<>>]
    /\ relevant_chunks = [r \in Requests |-> <<>>]
    /\ exc = [r \in Requests |-> NoExc]
    /\ prompt = [r \in Requests |-> NoPrompt]
    /\ completion = [r \in Requests |-> "none"]
    /\ answer = [r \in Requests |-> NoAnswer]
    /\ sources = [r \in Requests |-> <<>>]
    /\ status = [r \in Requests |-> 0]
    /\ detail = [r \in Requests |-> NoExc]
    /\ encodeCalls = [r \in Requests |-> 0]
    /\ completionCalls = [r \in Requests |-> 0]
    /\ responses = [r \in Requests |-> 0]

\* cursor.execute on the request's connection.  psycopg2 connections are not
\* autocommit: a statement the server rejects leaves the transaction aborted,
\* and every later statement of that connection is rejected
\* ("in_failed_txn").  A fault inside the driver leaves the transaction
\* as it was.
ExecOutcomes(r) ==
    IF txn[r] = "aborted" THEN {"in_failed_txn"}
    ELSE {"ok", "server_error", "driver_error"}

TxnAfter(r, o) ==
    IF o \in {"server_error", "in_failed_txn"} THEN "aborted" ELSE "active"

\* except Exception as e: raise HTTPException(500, f"Search failed: {e}")
SearchFailed(o) == [type |-> "HTTPException", msg |-> "Search failed", cause |-> o]

\* ---------------------------------------------------------------- actions
\* POST /chat arrives with a message.
Chat(r) ==
    /\ pc[r] = "idle"
    /\ \E q \in Queries : message' = [message EXCEPT ![r] = q]
    /\ pc' = [pc EXCEPT ![r] = "encode"]
    /\ UNCHANGED <<corpus, query_embedding, conn, txn, attempts, relevant_chunks,
                   exc, prompt, completion, answer, sources, status, detail, encodeCalls,
                   completionCalls, responses>>

\* query_embedding = model.encode([query])[0].tolist()
EncodeQuery(r) ==
    /\ pc[r] = "encode"
    /\ encodeCalls' = [encodeCalls EXCEPT ![r] = @ + 1]
    /\ \/ /\ query_embedding' = [query_embedding EXCEPT ![r] = Encode(message[r])]
          /\ pc' = [pc EXCEPT ![r] = "connect"]
          /\ exc' = exc
       \/ /\ exc' = [exc EXCEPT ![r] = [type |-> "Exception", msg |-> "encode failed", cause |-> "none"]]
          /\ pc' = [pc EXCEPT ![r] = "except"]
          /\ query_embedding' = query_embedding
    /\ UNCHANGED <<corpus, message, conn, txn, attempts, relevant_chunks, prompt,
                   completion, answer, sources, status, detail, completionCalls, responses>>

\* conn = get_db_connection()   (outside the try of search_similar_chunks)
get_db_connection(r) ==
    /\ pc[r] = "connect"
    /\ \/ /\ conn' = [conn EXCEPT ![r] = "open"]
          /\ txn' = [txn EXCEPT ![r] = "active"]
          /\ pc' = [pc EXCEPT ![r] = "columns"]
          /\ exc' = exc
       \/ /\ exc' = [exc EXCEPT ![r] =
                        [type |-> "HTTPException", msg |-> "Database connection failed",
                         cause |-> "connect"]]
          /\ pc' = [pc EXCEPT ![r] = "except"]
          /\ UNCHANGED <<conn, txn>>
    /\ UNCHANGED <<corpus, message, query_embedding, attempts, relevant_chunks,
                   prompt, completion, answer, sources, status, detail, encodeCalls,
                   completionCalls, responses>>

\* A statement of search_similar_chunks ahead of the tiers: at `here`, going
\* to `next` when it executes and to the outer except when it raises.
Introspect(r, here, next) ==
    /\ pc[r] = here
    /\ \E o \in ExecOutcomes(r) :
          /\ txn' = [txn EXCEPT ![r] = TxnAfter(r, o)]
          /\ IF o = "ok"
             THEN /\ pc' = [pc EXCEPT ![r] = next]
                  /\ exc' = exc
             ELSE /\ pc' = [pc EXCEPT ![r] = "finally"]
                  /\ exc' = [exc EXCEPT ![r] = SearchFailed(o)]
    /\ UNCHANGED <<corpus, message, query_embedding, conn, attempts,
                   relevant_chunks, prompt, completion, answer, sources, status, detail,
                   encodeCalls, completionCalls, responses>>

\* SELECT column_name, data_type FROM information_schema.columns ...
ReadColumns(r) == Introspect(r, "columns", "sample")

\* SELECT embedding FROM items_xbox LIMIT 1
ReadSample(r) == Introspect(r, "sample", "tier1")

\* One tier: its statement executes and its rows are returned, or it raises
\* and control passes to `onFail` (the next tier, or the outer except when
\* there is none).
Tier(r, here, name, rows, onFail) ==
    /\ pc[r] = here
    /\ \E o \in ExecOutcomes(r) :
          /\ txn' = [txn EXCEPT ![r] = TxnAfter(r, o)]
          /\ attempts' = [attempts EXCEPT ![r] =
                 Append(@, [tier |-> name,
                            arg |-> IF name = "textual" THEN LikePattern(message[r])
                                    ELSE query_embedding[r],
                            top_k |-> DefaultTopK,
                            outcome |-> o])]
          /\ IF o = "ok"
             THEN /\ relevant_chunks' = [relevant_chunks EXCEPT ![r] = rows]
                  /\ pc' = [pc EXCEPT ![r] = "finally"]
                  /\ exc' = exc
             ELSE /\ relevant_chunks' = relevant_chunks
                  /\ pc' = [pc EXCEPT ![r] = onFail]
                  /\ exc' = IF onFail = "finally"
                            THEN [exc EXCEPT ![r] = SearchFailed(o)]
                            ELSE exc
    /\ UNCHANGED <<corpus, message, query_embedding, conn, prompt, completion, answer,
                   sources, status, detail, encodeCalls, completionCalls, responses>>

\* TierNative falling through to the textual tier, the cast tier skipped.
TierNative_SkipCast(r) ==
    \E tb \in TieBreaks :
        Tier(r, "tier1", "native",
             VectorQuery(corpus, query_embedding[r], DefaultTopK, tb), "tier3")

\* ... 1 - (embedding <=> %s::vector) ... ORDER BY ... LIMIT %s
TierNative(r) ==
    \E tb \in TieBreaks :
        Tier(r, "tier1", "native",
             VectorQuery(corpus, query_embedding[r], DefaultTopK, tb), "tier2")

\* TierCast outside any inner try: its failure goes to the outer except.
TierCast_Propagates(r) ==
    \E tb \in TieBreaks :
        Tier(r, "tier2", "cast",
             VectorQuery(corpus, query_embedding[r], DefaultTopK, tb), "finally")

\* ... 1 - (embedding::vector <=> %s::vector) ... ORDER BY ... LIMIT %s
TierCast(r) ==
    \E tb \in TieBreaks :
        Tier(r, "tier2", "cast",
             VectorQuery(corpus, query_embedding[r], DefaultTopK, tb), "tier3")

\* ... 0.5 as similarity ... WHERE text ILIKE %s LIMIT %s
TierText(r) ==
    \E tb \in TieBreaks :
        Tier(r, "tier3", "textual",
             TextQuery(corpus, message[r], DefaultTopK, tb), "finally")

\* CloseConnection as the last statement of the try body instead of a
\* finally: the connection is closed on the returning paths only.
CloseConnection_OnReturnOnly(r) ==
    /\ pc[r] = "finally"
    /\ conn' = [conn EXCEPT ![r] = IF exc[r] = NoExc THEN "closed" ELSE @]
    /\ txn' = [txn EXCEPT ![r] = IF exc[r] = NoExc THEN "none" ELSE @]
    /\ pc' = [pc EXCEPT ![r] = IF exc[r] = NoExc THEN "check" ELSE "except"]
    /\ UNCHANGED <<corpus, message, query_embedding, attempts, relevant_chunks,
                   exc, prompt, completion, answer, sources, status, detail,
                   encodeCalls, completionCalls, responses>>

\* CloseConnection with a return inside the finally: the exception in flight
\* is dropped and the search returns what it has.
CloseConnection_Swallow(r) ==
    /\ pc[r] = "finally"
    /\ conn' = [conn EXCEPT ![r] = "closed"]
    /\ txn' = [txn EXCEPT ![r] = "none"]
    /\ exc' = [exc EXCEPT ![r] = NoExc]
    /\ pc' = [pc EXCEPT ![r] = "check"]
    /\ UNCHANGED <<corpus, message, query_embedding, attempts, relevant_chunks,
                   prompt, completion, answer, sources, status, detail,
                   encodeCalls, completionCalls, responses>>

\* finally: conn.close(); then the return or the raise goes on to chat().
CloseConnection(r) ==
    /\ pc[r] = "finally"
    /\ conn' = [conn EXCEPT ![r] = "closed"]
    /\ txn' = [txn EXCEPT ![r] = "none"]
    /\ pc' = [pc EXCEPT ![r] = IF exc[r] = NoExc THEN "check" ELSE "except"]
    /\ UNCHANGED <<corpus, message, query_embedding, attempts, relevant_chunks,
                   exc, prompt, completion, answer, sources, status, detail, encodeCalls,
                   completionCalls, responses>>

\* CheckChunks without its test: every retrieval goes on to the Composer.
CheckChunks_NoTest(r) ==
    /\ pc[r] = "check"
    /\ pc' = [pc EXCEPT ![r] = "compose"]
    /\ UNCHANGED <<corpus, message, query_embedding, conn, txn, attempts,
                   relevant_chunks, exc, prompt, completion, answer, sources,
                   status, detail, encodeCalls, completionCalls, responses>>

\* if not relevant_chunks: return ChatResponse(answer=<canned>, sources=[])
CheckChunks(r) ==
    /\ pc[r] = "check"
    /\ IF relevant_chunks[r] = <<>>
       THEN /\ answer' = [answer EXCEPT ![r] = CannedAnswer]
            /\ sources' = [sources EXCEPT ![r] = <<>>]
            /\ status' = [status EXCEPT ![r] = 200]
            /\ responses' = [responses EXCEPT ![r] = @ + 1]
            /\ pc' = [pc EXCEPT ![r] = "done"]
       ELSE /\ pc' = [pc EXCEPT ![r] = "compose"]
            /\ UNCHANGED <<answer, sources, status, responses>>
    /\ UNCHANGED <<corpus, message, query_embedding, conn, txn, attempts,
                   relevant_chunks, exc, prompt, completion, detail, encodeCalls,
                   completionCalls>>

\* generate_answer calling the completion service again after a failure.
generate_answer_Retry(r) ==
    /\ pc[r] = "compose"
    /\ prompt' = [prompt EXCEPT ![r] = Prompt(message[r], relevant_chunks[r])]
    /\ \/ /\ completion' = [completion EXCEPT ![r] = "ok"]
          /\ completionCalls' = [completionCalls EXCEPT ![r] = @ + 1]
          /\ answer' = [answer EXCEPT ![r] = CompletionAnswer]
       \/ \E e \in CompletionErrors :
             /\ completion' = [completion EXCEPT ![r] = "raised"]
             /\ completionCalls' = [completionCalls EXCEPT ![r] = @ + 2]
             /\ answer' = [answer EXCEPT ![r] = ErrorAnswer(e)]
    /\ pc' = [pc EXCEPT ![r] = "format"]
    /\ UNCHANGED <<corpus, message, query_embedding, conn, txn, attempts,
                   relevant_chunks, exc, sources, status, detail, encodeCalls,
                   responses>>

\* generate_answer without its try: a failing completion call propagates.
generate_answer_Propagates(r) ==
    /\ pc[r] = "compose"
    /\ prompt' = [prompt EXCEPT ![r] = Prompt(message[r], relevant_chunks[r])]
    /\ completionCalls' = [completionCalls EXCEPT ![r] = @ + 1]
    /\ \/ /\ completion' = [completion EXCEPT ![r] = "ok"]
          /\ answer' = [answer EXCEPT ![r] = CompletionAnswer]
          /\ pc' = [pc EXCEPT ![r] = "format"]
          /\ exc' = exc
       \/ \E e \in CompletionErrors :
             /\ completion' = [completion EXCEPT ![r] = "raised"]
             /\ exc' = [exc EXCEPT ![r] =
                           [type |-> "Exception", msg |-> "completion failed", cause |-> e]]
             /\ pc' = [pc EXCEPT ![r] = "except"]
             /\ answer' = answer
    /\ UNCHANGED <<corpus, message, query_embedding, conn, txn, attempts,
                   relevant_chunks, sources, status, detail, encodeCalls,
                   responses>>

\* answer = generate_answer(request.message, relevant_chunks)
generate_answer(r) ==
    /\ pc[r] = "compose"
    /\ prompt' = [prompt EXCEPT ![r] = Prompt(message[r], relevant_chunks[r])]
    /\ completionCalls' = [completionCalls EXCEPT ![r] = @ + 1]
    /\ \/ /\ completion' = [completion EXCEPT ![r] = "ok"]
          /\ answer' = [answer EXCEPT ![r] = CompletionAnswer]
       \/ \E e \in CompletionErrors :
             /\ completion' = [completion EXCEPT ![r] = "raised"]
             /\ answer' = [answer EXCEPT ![r] = ErrorAnswer(e)]
    /\ pc' = [pc EXCEPT ![r] = "format"]
    /\ UNCHANGED <<corpus, message, query_embedding, conn, txn, attempts,
                   relevant_chunks, exc, sources, status, detail, encodeCalls,
                   responses>>

\* sources = [...]; return ChatResponse(answer=answer, sources=sources)
Respond(r) ==
    /\ pc[r] = "format"
    /\ sources' = [sources EXCEPT ![r] = FormatSources(relevant_chunks[r])]
    /\ status' = [status EXCEPT ![r] = 200]
    /\ responses' = [responses EXCEPT ![r] = @ + 1]
    /\ pc' = [pc EXCEPT ![r] = "done"]
    /\ UNCHANGED <<corpus, message, query_embedding, conn, txn, attempts,
                   relevant_chunks, exc, prompt, completion, answer, detail, encodeCalls,
                   completionCalls>>

\* except Exception as e: raise HTTPException(status_code=500, detail=str(e))
HandlerExcept(r) ==
    /\ pc[r] = "except"
    /\ status' = [status EXCEPT ![r] = 500]
    /\ detail' = [detail EXCEPT ![r] = exc[r]]
    /\ exc' = [exc EXCEPT ![r] = NoExc]
    /\ responses' = [responses EXCEPT ![r] = @ + 1]
    /\ pc' = [pc EXCEPT ![r] = "done"]
    /\ UNCHANGED <<corpus, message, query_embedding, conn, txn, attempts,
                   relevant_chunks, prompt, completion, answer, sources, encodeCalls,
                   completionCalls>>

\* The response has been sent: the handler's frame is gone and the worker
\* is free for the next request.
Return(r) ==
    /\ pc[r] = "done"
    /\ pc' = [pc EXCEPT ![r] = "idle"]
    /\ message' = [message EXCEPT ![r] = <<>>]
    /\ query_embedding' = [query_embedding EXCEPT ![r] = <<>>]
    /\ conn' = [conn EXCEPT ![r] = "none"]
    /\ txn' = [txn EXCEPT ![r] = "none"]
    /\ attempts' = [attempts EXCEPT ![r] = <<>>]
    /\ relevant_chunks' = [relevant_chunks EXCEPT ![r] = <<>>]
    /\ exc' = [exc EXCEPT ![r] = NoExc]
    /\ prompt' = [prompt EXCEPT ![r] = NoPrompt]
    /\ completion' = [completion EXCEPT ![r] = "none"]
    /\ answer' = [answer EXCEPT ![r] = NoAnswer]
    /\ sources' = [sources EXCEPT ![r] = <<>>]
    /\ status' = [status EXCEPT ![r] = 0]
    /\ detail' = [detail EXCEPT ![r] = NoExc]
    /\ encodeCalls' = [encodeCalls EXCEPT ![r] = 0]
    /\ completionCalls' = [completionCalls EXCEPT ![r] = 0]
    /\ responses' = [responses EXCEPT ![r] = 0]
    /\ UNCHANGED corpus

search_similar_chunks(r) ==
    \/ EncodeQuery(r)
    \/ get_db_connection(r)
    \/ ReadColumns(r)
    \/ ReadSample(r)
    \/ TierNative(r)
    \/ TierCast(r)
    \/ TierText(r)
    \/ CloseConnection(r)

\* The steps of one run of the handler, once the request is in.
chat(r) ==
    \/ search_similar_chunks(r)
    \/ CheckChunks(r)
    \/ generate_answer(r)
    \/ Respond(r)
    \/ HandlerExcept(r)

Worker(r) == Chat(r) \/ chat(r) \/ Return(r)

\* Several worker processes: the steps of their requests interleave freely.
Next == \E r \in Requests : Worker(r)

Spec == Init /\ [][Next]_vars

\* One worker process: chat() is a coroutine that never awaits, so the event
\* loop runs each handler to its response before it starts the next one.
Accept(r) ==
    /\ \A o \in Requests \ {r} : pc[o] = "idle"
    /\ Chat(r)

SerialNext == \E r \in Requests : Accept(r) \/ chat(r) \/ Return(r)

SerialSpec == Init /\ [][SerialNext]_vars

\* Every call of a request returns or raises, so a handler that can take a
\* step takes one.
SerialLiveSpec == SerialSpec /\ \A r \in Requests : WF_vars(chat(r))

\* ----------------------------------------------------------------- claims
\* search_similar_chunks has returned to chat() without raising.
Retrieved(r) ==
    /\ pc[r] \in {"check", "compose", "format", "done"}
    /\ status[r] # 500

Grounded(r) == pc[r] \in {"compose", "format"}

\* C1: a request whose retrieval returned the empty list is answered 200
\* with the canned answer and no sources straight from the check, the
\* completion service never called; only a non-empty retrieval is Grounded.
C1_EmptyRetrievalIsCanned ==
    \A r \in Requests :
        /\ (Retrieved(r) /\ relevant_chunks[r] = <<>>) =>
              /\ pc[r] \in {"check", "done"}
              /\ completionCalls[r] = 0
              /\ completion[r] = "none"
              /\ prompt[r] = NoPrompt
              /\ pc[r] = "done" =>
                    /\ status[r] = 200
                    /\ answer[r] = CannedAnswer
                    /\ sources[r] = <<>>
        /\ Grounded(r) => relevant_chunks[r] # <<>>
        /\ completionCalls[r] > 0 => relevant_chunks[r] # <<>>

\* The textual tier found nothing in a store that holds passages.
C1_Witness ==
    \E r \in Requests :
        /\ pc[r] = "done"
        /\ status[r] = 200
        /\ answer[r] = CannedAnswer
        /\ corpus # <<>>
        /\ Len(attempts[r]) = 3

TierOrder == <<"native", "cast", "textual">>

Raised(a) == a.outcome # "ok"

\* C2: the tiers run in the order native, cast, textual, each at most once,
\* a later one only after every earlier one raised; the cast tier gets the
\* native tier's embedding and top_k; the first tier that does not raise
\* gives the result and no tier runs after it.
C2_TiersInOrder ==
    \A r \in Requests :
        LET a == attempts[r]
        IN  /\ Len(a) <= 3
            /\ \A i \in DOMAIN a :
                  /\ a[i].tier = TierOrder[i]
                  /\ i < Len(a) => Raised(a[i])
                  /\ ~Raised(a[i]) =>
                        /\ pc[r] \notin {"tier1", "tier2", "tier3"}
                        /\ \E tb \in TieBreaks :
                              relevant_chunks[r] =
                                 IF a[i].tier = "textual"
                                 THEN TextQuery(corpus, message[r], a[i].top_k, tb)
                                 ELSE VectorQuery(corpus, a[i].arg, a[i].top_k, tb)
            /\ Len(a) >= 2 =>
                  /\ a[2].arg = a[1].arg
                  /\ a[2].top_k = a[1].top_k
                  /\ a[1].arg = Encode(message[r])
            /\ pc[r] = "tier2" => Len(a) = 1
            /\ pc[r] = "tier3" => Len(a) = 2

\* The cast tier answered after the native tier raised.
C2_Witness ==
    \E r \in Requests :
        /\ Len(attempts[r]) = 2
        /\ Raised(attempts[r][1])
        /\ ~Raised(attempts[r][2])
        /\ relevant_chunks[r] # <<>>

\* search_similar_chunks raised "Search failed" (in flight, or already
\* turned into the response).
HardFailure(r) == exc[r].msg = "Search failed" \/ detail[r].msg = "Search failed"

AllTiersRaised(r) ==
    /\ Len(attempts[r]) = 3
    /\ \A i \in 1..3 : Raised(attempts[r][i])

\* C3 as stated: with the connection acquired, search_similar_chunks raises
\* to its caller only if all three tiers were attempted and each raised.
C3_HardFailureOnlyAfterAllTiers ==
    \A r \in Requests : HardFailure(r) => AllTiersRaised(r)

\* C3, amended: with the connection acquired, search_similar_chunks raises
\* only if a statement ahead of the tiers raised (no tier was attempted) or
\* all three tiers were attempted and each raised; a native or cast tier
\* that raises is caught locally and hands over to the next tier.
C3_HardFailureAfterProbeOrAllTiers ==
    \A r \in Requests :
        LET a == attempts[r]
        IN  /\ HardFailure(r) => (a = <<>> \/ AllTiersRaised(r))
            /\ (Len(a) \in {1, 2} /\ Raised(a[Len(a)])) =>
                  /\ exc[r] = NoExc
                  /\ pc[r] = (IF Len(a) = 1 THEN "tier2" ELSE "tier3")
                  /\ conn[r] = "open"

\* All three tiers raised and the request ended in "Search failed".
C3_Witness ==
    \E r \in Requests :
        /\ pc[r] = "done"
        /\ detail[r].msg = "Search failed"
        /\ AllTiersRaised(r)

\* q occurs in text, letter case ignored.
Contains(text, q) ==
    \E k \in 0..(Len(text) - Len(q)) :
        \A i \in 1..Len(q) : Lower(text[k + i]) = Lower(q[i])

Matching(q) == {i \in DOMAIN corpus : Contains(corpus[i].text, q)}

\* C4: when both vector tiers raised and the store would answer the textual
\* statement (no error of that statement's own), the search does not end in
\* an error: it returns passages of the store whose text contains the raw
\* query without regard to case, min(top_k, number of such passages) of
\* them, each with similarity 0.5.
C4_TextualTierDegrades ==
    \A r \in Requests :
        LET a == attempts[r]
            c == relevant_chunks[r]
        IN  (Len(a) = 3 /\ a[3].outcome \notin {"server_error", "driver_error"}) =>
                /\ exc[r] = NoExc
                /\ status[r] # 500
                /\ Len(c) = Min(DefaultTopK, Cardinality(Matching(message[r])))
                /\ \A i \in DOMAIN c :
                      /\ c[i].similarity = 5000
                      /\ Contains(c[i].text, message[r])
                      /\ \E j \in DOMAIN corpus : corpus[j].text = c[i].text

\* C5: when retrieval returned passages and the completion call raises,
\* generate_answer returns a string embedding the error instead of raising,
\* and the handler answers 200 with that string and one source per
\* retrieved passage, in the retriever's order.
C5_CompletionFailureStillAnswers ==
    \A r \in Requests :
        completion[r] = "raised" =>
            /\ relevant_chunks[r] # <<>>
            /\ exc[r] = NoExc
            /\ pc[r] \in {"format", "done"}
            /\ answer[r].error \in CompletionErrors
            /\ answer[r].text = "Sorry, I encountered an error generating the answer"
            /\ pc[r] = "done" =>
                  /\ status[r] = 200
                  /\ responses[r] = 1
                  /\ Len(sources[r]) = Len(relevant_chunks[r])
                  /\ \A i \in DOMAIN sources[r] :
                        LET t == relevant_chunks[r][i].text
                            n == Min(Len(t), 200)
                        IN  SubSeq(sources[r][i].content, 1, n) = SubSeq(t, 1, n)

\* A request answered 200 with the error text and several distinct sources.
C5_Witness ==
    \E r \in Requests :
        /\ pc[r] = "done"
        /\ completion[r] = "raised"
        /\ status[r] = 200
        /\ Len(sources[r]) >= 2
        /\ sources[r][1].content # sources[r][2].content

InSearch(r) == pc[r] \in {"columns", "sample", "tier1", "tier2", "tier3", "finally"}

\* C6: whatever the interleaving of the requests, a request holds an open
\* connection only inside search_similar_chunks: it has closed it on every
\* exit (returning or raising) before chat() goes on, so none is open while
\* the Composer runs or after the response; a request whose encoding or
\* connecting failed has no connection.
C6_ConnectionScopedToSearch ==
    \A r \in Requests :
        /\ conn[r] = "open" <=> InSearch(r)
        /\ (pc[r] \in {"check", "compose", "format"}) => conn[r] = "closed"
        /\ (pc[r] = "except" /\ exc[r].msg = "Search failed") => conn[r] = "closed"
        /\ (pc[r] = "done" /\ detail[r].msg = "Search failed") => conn[r] = "closed"
        /\ (pc[r] = "done" /\ status[r] = 200) => conn[r] = "closed"
        /\ (exc[r].msg \in {"encode failed", "Database connection failed"}
            \/ detail[r].msg \in {"encode failed", "Database connection failed"})
              => conn[r] = "none"
        /\ txn[r] # "none" => conn[r] = "open"

\* One request composes, its connection closed after a tier fallback, while
\* another is in its last tier with its connection open.
C6_Witness ==
    \E r, o \in Requests :
        /\ r # o
        /\ pc[r] = "compose"
        /\ Len(attempts[r]) = 2
        /\ conn[r] = "closed"
        /\ pc[o] = "tier3"
        /\ conn[o] = "open"

Ended(r) ==
    /\ pc[r] = "done"
    /\ responses[r] = 1
    /\ exc[r] = NoExc
    /\ \/ /\ status[r] = 200
          /\ answer[r] # NoAnswer
          /\ detail[r] = NoExc
       \/ /\ status[r] = 500
          /\ detail[r].msg \in {"encode failed", "Database connection failed", "Search failed"}
          /\ answer[r] = NoAnswer
          /\ sources[r] = <<>>
          /\ completionCalls[r] = 0

Failed(r) == pc[r] = "done" /\ status[r] = 500 /\ completionCalls[r] = 0

\* C7: every call returning or raising, a request that has come in ends in
\* exactly one outcome, 200 with an answer and sources or 500 with a detail;
\* a failed encoding, a failed connection or three failed tiers end in the
\* 500 outcome with the Composer never run, and no exception is left over.
C7_EveryRequestEnds ==
    /\ [](\A r \in Requests :
            /\ responses[r] <= 1
            /\ pc[r] = "done" => Ended(r)
            /\ pc[r] # "done" => (responses[r] = 0 /\ status[r] = 0)
            /\ exc[r] # NoExc => pc[r] \in {"finally", "except"}
            /\ (pc[r] = "done" /\ AllTiersRaised(r)) => Failed(r))
    /\ [][\A r \in Requests :
              (exc[r] # NoExc /\ pc'[r] = "done") => Failed(r)']_vars
    /\ \A r \in Requests : []<>(pc[r] \in {"idle", "done"})

\* A request whose three tiers all raised has been answered 500.
C7_Witness ==
    \E r \in Requests :
        /\ Failed(r)
        /\ AllTiersRaised(r)
        /\ detail[r].msg = "Search failed"

\* C8: in a Grounded response, source i is the first 200 characters of
\* passage i followed by "..." (203 characters) when the text is longer than
\* 200, and the text itself when it has at most 200 characters.
C8_SourceTruncation ==
    \A r \in Requests :
        (pc[r] = "done" /\ status[r] = 200 /\ relevant_chunks[r] # <<>>) =>
            /\ Len(sources[r]) = Len(relevant_chunks[r])
            /\ \A i \in DOMAIN sources[r] :
                  LET t == relevant_chunks[r][i].text
                      c == sources[r][i].content
                  IN  IF Len(t) > 200
                      THEN /\ Len(c) = 203
                           /\ \A k \in 1..200 : c[k] = t[k]
                           /\ \A k \in 201..203 : c[k] = "."
                      ELSE c = t

\* One response holds a passage of exactly 200 characters, a longer one and
\* an empty one.
C8_Witness ==
    \E r \in Requests :
        /\ pc[r] = "done"
        /\ status[r] = 200
        /\ \E i, j, k \in DOMAIN sources[r] :
              /\ Len(relevant_chunks[r][i].text) = 200
              /\ Len(sources[r][i].content) = 200
              /\ Len(relevant_chunks[r][j].text) = 201
              /\ Len(sources[r][j].content) = 203
              /\ relevant_chunks[r][k].text = <<>>

\* The tier that answered, "none" if none has.
Answering(r) ==
    LET a == attempts[r]
    IN  IF a # <<>> /\ ~Raised(a[Len(a)]) THEN a[Len(a)].tier ELSE "none"

\* C9: whichever tier answers, at most top_k = 5 passages are returned;
\* when a vector tier answers there are min(5, size of the corpus) of them
\* and their similarities never increase along the list; an empty corpus
\* gives the empty list and no error.
C9_AtMostTopKRanked ==
    \A r \in Requests :
        LET c == relevant_chunks[r]
        IN  /\ Len(c) <= 5
            /\ Answering(r) \in {"native", "cast"} =>
                  /\ Len(c) = Min(5, Len(corpus))
                  /\ \A i \in 1..(Len(c) - 1) : c[i].similarity >= c[i + 1].similarity
            /\ (Answering(r) # "none" /\ corpus = <<>>) =>
                  /\ c = <<>>
                  /\ exc[r] = NoExc
                  /\ status[r] # 500

\* A vector tier cut a corpus of more than five passages down to five, of
\* differing similarity.
C9_Witness ==
    \E r \in Requests :
        /\ Answering(r) \in {"native", "cast"}
        /\ Len(corpus) > 5
        /\ Len(relevant_chunks[r]) = 5
        /\ relevant_chunks[r][1].similarity > relevant_chunks[r][5].similarity

TierRuns(r, t) == Cardinality({i \in DOMAIN attempts[r] : attempts[r][i].tier = t})

NothingRetried(r) ==
    /\ encodeCalls[r] <= 1
    /\ pc[r] \notin {"idle", "encode"} => encodeCalls[r] = 1
    /\ \A t \in {"native", "cast", "textual"} : TierRuns(r, t) <= 1
    /\ completion[r] = "raised" => completionCalls[r] = 1

\* C10 as stated: every request calls the completion service exactly once,
\* and nothing is retried.
C10_CompletionExactlyOnce ==
    \A r \in Requests :
        /\ NothingRetried(r)
        /\ pc[r] = "done" => completionCalls[r] = 1

\* C10, amended: a request calls the completion service at most once:
\* exactly once when its retrieval returned at least one passage and not at
\* all otherwise; nothing is retried: the embedding function is invoked
\* once, each tier is attempted at most once, and a failed completion call
\* is not followed by a second one.
C10_CompletionAtMostOnce ==
    \A r \in Requests :
        /\ NothingRetried(r)
        /\ completionCalls[r] <= 1
        /\ pc[r] \in {"format", "done"} =>
              (completionCalls[r] = 1 <=> (Retrieved(r) /\ relevant_chunks[r] # <<>>))

\* A request whose completion call failed has been answered after one call.
C10_Witness ==
    \E r \in Requests :
        /\ pc[r] = "done"
        /\ completion[r] = "raised"
        /\ completionCalls[r] = 1
        /\ encodeCalls[r] = 1
        /\ Len(attempts[r]) = 3

====
